---- MODULE Spec2Model ----
(***************************************************************************)
(* Hybrid MPSO-CNN: the two-level particle swarm optimizer of             *)
(* Hybrid_MPSO_CNN/Hybrid_MPSO_CNN.py (classes Particle_L1, Particle_L2   *)
(* and Hybrid_MPSO_CNN).                                                   *)
(*                                                                         *)
(* Numbers.  Python floats are modelled in fixed point: a velocity, an    *)
(* inertia weight, a draw of random.uniform and an accuracy are integers  *)
(* counting thousandths (Scale).  Positions are Python ints.  The float   *)
(* values inf, -inf and nan are the distinguished values PosInf, NegInf   *)
(* and NaN, compared as Python compares them (FGt).                        *)
(*                                                                         *)
(* Lists.  A Python list is an object: heap[id] is the content of list    *)
(* object id, and the fields pos_i, pbest_i, gbest (pos_ij, pbest_ij,     *)
(* gbest) of a particle hold object ids, so that two fields naming the    *)
(* same list see each other's in-place updates.                            *)
(*                                                                         *)
(* Randomness.  The module random is a seeded generator: rng is its       *)
(* state, every draw advances it, and the seed is an input of Init.       *)
(* The fitness evaluator (the keras model built, trained and evaluated)   *)
(* is the environment: a run is given one evaluator behaviour, and any    *)
(* call of it may raise.                                                   *)
(***************************************************************************)
EXTENDS Integers, Sequences, FiniteSets, TLC

VARIABLES
    search_space,       \* self.search_space
    evaluator,          \* the behaviour of the external fitness evaluator in this run
    rng,                \* state of the module random
    heap,               \* list objects: heap[id] is the content of list id
    max_iter_lvl1,      \* self.max_iter_lvl1
    swarm_lvl1,         \* self.swarm_lvl1, each particle holding its swarm_lvl2
    status,             \* where run() is: "idle" (not called), "running" (in the loop
                        \* of level1_optimize), "leaving" (the loop is exhausted),
                        \* "done" (returned: Converged), "error" (left by an exception);
                        \* "omega" when calculate_omega is exercised on its own
    t_lvl1,             \* loop variable t of level1_optimize
    i_lvl1,             \* index of particle_l1 in level1_optimize (1-based)
    t_lvl2,             \* loop variable t of level2_optimize
    i_lvl2,             \* index of particle_l2 in level2_optimize (1-based)
    omega_call,         \* the latest call of calculate_omega: arguments and return value
    particle_l2_gbest,  \* local of level1_optimize (a list id, 0 before it is bound)
    result,             \* what run() returned
    n_eval,             \* number of calls of the evaluator so far
    raised,             \* the evaluator has raised
    best_seen,          \* history: the highest accuracy evaluated so far and where
    eval_log,           \* history: the latest call of the evaluator: which particle
                        \* (l1, l2), in which inner generation (t), the state of
                        \* the generator at the call (rng) and the position given (pos)
    macro_updates,      \* history: macro_updates[a] counts the calls of update_velocity
                        \* and update_position of macro particle a
    twin                \* a second run of the same optimizer (same search space, same
                        \* seed, same evaluator), stepped side by side with this one:
                        \* its generator state, list objects, swarm, locals and result
                        \* (NoTwin when the run is on its own)

vars == <<search_space, evaluator, rng, heap, max_iter_lvl1, swarm_lvl1, status,
          t_lvl1, i_lvl1, t_lvl2, i_lvl2, omega_call, particle_l2_gbest, result,
          n_eval, raised, best_seen, eval_log, macro_updates, twin>>

-----------------------------------------------------------------------------
(* Bounds of the model *)

NumSeeds == 2          \* seeds of the module random tried
NumEvalSeeds == 2      \* evaluator behaviours (accuracy sequences) tried
AccSteps == 4          \* an accuracy is a multiple of 1/AccSteps
OmegaTMax == 14        \* largest t_max calculate_omega is applied to on its own

-----------------------------------------------------------------------------
(* Fixed point and float values *)

Scale == 1000
PosInf == 1000000000
NegInf == -1000000000
NaN == 2000000000

\* Python's a > b on floats: false as soon as one side is nan.
FGt(a, b) == a # NaN /\ b # NaN /\ a > b

\* int(x / d) for Python's int(): truncation toward zero.
IntTrunc(x, d) == IF x >= 0 THEN x \div d ELSE -((-x) \div d)

\* (a * b) / Scale, truncated, without leaving 32 bits.
MulScaled(a, b) ==
    LET s == IF b >= 0 THEN 1 ELSE -1
        m == IF b >= 0 THEN b ELSE -b
    IN s * (a * (m \div Scale) + (a * (m % Scale)) \div Scale)

-----------------------------------------------------------------------------
(* The module random *)

RngMod == 65537
RngMul == 75
RngInc == 74

NextRng(r) == (RngMul * r + RngInc) % RngMod

\* random.randint(a, b): an integer of a..b
randint(r, a, b) ==
    [val |-> a + (NextRng(r) % (b - a + 1)), rng |-> NextRng(r)]

\* random.randrange(start, stop, step): start, start+step, ... below stop
randrange(r, start, stop, step) ==
    LET n == (stop - start + step - 1) \div step
    IN [val |-> start + step * (NextRng(r) % n), rng |-> NextRng(r)]

\* random.uniform(0, 1), in thousandths
uniform01(r) == [val |-> NextRng(r) % Scale, rng |-> NextRng(r)]

-----------------------------------------------------------------------------
(* Program constants *)

c1 == 2
c2 == 2
max_iter_lvl2 == 5
swarm_size_lvl1 == 5
MicroPerConv == 5
MaxIterLo == 5
MaxIterHi == 8

\* self.search_space (Table 1)
Table1 ==
    [nC   |-> <<1, 5>>,  nP   |-> <<1, 5>>,  nF   |-> <<1, 5>>,
     c_nf |-> <<1, 64>>, c_fs |-> <<1, 13>>, c_pp |-> <<0, 1>>,
     c_ss |-> <<1, 5>>,  p_fs |-> <<1, 13>>, p_ss |-> <<1, 5>>,
     p_pp |-> <<0, 1>>,  op   |-> <<1, 1024>>]

\* Table 1 with the number of convolutional layers fixed to 2
Table1FixedNC == [Table1 EXCEPT !.nC = <<2, 2>>]

SearchSpaces == {Table1, Table1FixedNC}

-----------------------------------------------------------------------------
(* Construction.  A constructor takes the construction state                *)
(* c = [rng, heap] and returns the object with the state after it.          *)

\* Particle_L2.__init__ with the stride drawn from the whole range of the search
\* space, the filter size not capping it
Particle_L2_init_StrideUncapped(ss, c) ==
    LET d_nf  == randint(c.rng, ss.c_nf[1], ss.c_nf[2])
        d_fs  == randrange(d_nf.rng, ss.c_fs[1], ss.c_fs[2] + 1, 2)
        d_pp  == randint(d_fs.rng, ss.c_pp[1], ss.c_pp[2])
        d_ss  == randint(d_pp.rng, ss.c_ss[1], ss.c_ss[2])
        d_pfs == randrange(d_ss.rng, ss.p_fs[1], ss.p_fs[2] + 1, 2)
        d_pss == randint(d_pfs.rng, ss.p_ss[1], ss.p_ss[2])
        d_ppp == randint(d_pss.rng, ss.p_pp[1], d_pfs.val)
        d_op  == randint(d_ppp.rng, ss.op[1], ss.op[2])
        id    == Len(c.heap) + 1
    IN [obj  |-> [pos_ij     |-> id,
                  vel_ij     |-> <<0, 0, 0, 0, 0, 0, 0, 0>>,
                  pbest_ij   |-> id,
                  pbest_ij_F |-> NegInf,
                  gbest      |-> id,
                  gbest_F    |-> PosInf,
                  F_ij       |-> NegInf],
        rng  |-> d_op.rng,
        heap |-> Append(c.heap, <<d_nf.val, d_fs.val, d_pp.val, d_ss.val,
                                  d_pfs.val, d_pss.val, d_ppp.val, d_op.val>>)]

\* Particle_L2.__init__
Particle_L2_init(ss, c) ==
    LET d_nf  == randint(c.rng, ss.c_nf[1], ss.c_nf[2])
        d_fs  == randrange(d_nf.rng, ss.c_fs[1], ss.c_fs[2] + 1, 2)
        d_pp  == randint(d_fs.rng, ss.c_pp[1], ss.c_pp[2])
        d_ss  == randint(d_pp.rng, ss.c_ss[1], d_fs.val)
        d_pfs == randrange(d_ss.rng, ss.p_fs[1], ss.p_fs[2] + 1, 2)
        d_pss == randint(d_pfs.rng, ss.p_ss[1], ss.p_ss[2])
        d_ppp == randint(d_pss.rng, ss.p_pp[1], d_pfs.val)
        d_op  == randint(d_ppp.rng, ss.op[1], ss.op[2])
        id    == Len(c.heap) + 1
    IN [obj  |-> [pos_ij     |-> id,
                  vel_ij     |-> <<0, 0, 0, 0, 0, 0, 0, 0>>,
                  pbest_ij   |-> id,
                  pbest_ij_F |-> NegInf,
                  gbest      |-> id,
                  gbest_F    |-> PosInf,
                  F_ij       |-> NegInf],
        rng  |-> d_op.rng,
        heap |-> Append(c.heap, <<d_nf.val, d_fs.val, d_pp.val, d_ss.val,
                                  d_pfs.val, d_pss.val, d_ppp.val, d_op.val>>)]

\* swarm + [Particle_L2(search_space)]
AppendL2(ss, c) ==
    LET p == Particle_L2_init(ss, c)
    IN [obj |-> Append(c.obj, p.obj), rng |-> p.rng, heap |-> p.heap]

\* [Particle_L2(search_space) for _ in range(n)], in the order of construction
\* (the shorter swarm is bound through a singleton set: it is evaluated once)
RECURSIVE NewSwarmL2(_, _, _)
NewSwarmL2(ss, n, c) ==
    IF n = 0 THEN [obj |-> <<>>, rng |-> c.rng, heap |-> c.heap]
    ELSE CHOOSE sw \in {AppendL2(ss, rest) : rest \in {NewSwarmL2(ss, n - 1, c)}} : TRUE

\* a micro swarm of five particles whatever the architecture
swarm_size_lvl2_Flat(nC) == MicroPerConv

\* self.swarm_size_lvl2 = 5*self.nC
swarm_size_lvl2(nC) == MicroPerConv * nC

\* Particle_L1.__init__ with nP and nF drawn from the whole range of the search
\* space, nC not capping them
Particle_L1_init_Uncapped(ss, c) ==
    LET d_nC == randint(c.rng, ss.nC[1], ss.nC[2])
        d_nP == randint(d_nC.rng, ss.nP[1], ss.nP[2])
        d_nF == randint(d_nP.rng, ss.nF[1], ss.nF[2])
        id   == Len(c.heap) + 1
        sw   == NewSwarmL2(ss, swarm_size_lvl2(d_nC.val),
                           [rng  |-> d_nF.rng,
                            heap |-> Append(c.heap, <<d_nC.val, d_nP.val, d_nF.val>>)])
    IN [obj  |-> [nC         |-> d_nC.val,
                  nP         |-> d_nP.val,
                  nF         |-> d_nF.val,
                  pos_i      |-> id,
                  vel_i      |-> <<0, 0, 0>>,
                  pbest_i    |-> id,
                  pbest_i_F  |-> NegInf,
                  gbest      |-> id,
                  gbest_F    |-> PosInf,
                  F_i        |-> NegInf,
                  swarm_lvl2 |-> sw.obj],
        rng  |-> sw.rng,
        heap |-> sw.heap]

\* Particle_L1.__init__
Particle_L1_init(ss, c) ==
    LET d_nC == randint(c.rng, ss.nC[1], ss.nC[2])
        d_nP == randint(d_nC.rng, ss.nP[1], d_nC.val)
        d_nF == randint(d_nP.rng, ss.nF[1], d_nC.val)
        id   == Len(c.heap) + 1
        sw   == NewSwarmL2(ss, swarm_size_lvl2(d_nC.val),
                           [rng  |-> d_nF.rng,
                            heap |-> Append(c.heap, <<d_nC.val, d_nP.val, d_nF.val>>)])
    IN [obj  |-> [nC         |-> d_nC.val,
                  nP         |-> d_nP.val,
                  nF         |-> d_nF.val,
                  pos_i      |-> id,
                  vel_i      |-> <<0, 0, 0>>,
                  pbest_i    |-> id,
                  pbest_i_F  |-> NegInf,
                  gbest      |-> id,
                  gbest_F    |-> PosInf,
                  F_i        |-> NegInf,
                  swarm_lvl2 |-> sw.obj],
        rng  |-> sw.rng,
        heap |-> sw.heap]

\* swarm + [Particle_L1(self.search_space)]
AppendL1(ss, c) ==
    LET p == Particle_L1_init(ss, c)
    IN [obj |-> Append(c.obj, p.obj), rng |-> p.rng, heap |-> p.heap]

\* [Particle_L1(self.search_space) for _ in range(n)], in the order of construction
RECURSIVE NewSwarmL1(_, _, _)
NewSwarmL1(ss, n, c) ==
    IF n = 0 THEN [obj |-> <<>>, rng |-> c.rng, heap |-> c.heap]
    ELSE CHOOSE sw \in {AppendL1(ss, rest) : rest \in {NewSwarmL1(ss, n - 1, c)}} : TRUE

\* Hybrid_MPSO_CNN.__init__ under seed: max_iter_lvl1 is drawn, then the swarm
Hybrid_MPSO_CNN_init(ss, seed) ==
    LET d_it == randint(seed, MaxIterLo, MaxIterHi)
        sw   == NewSwarmL1(ss, swarm_size_lvl1, [rng |-> d_it.rng, heap |-> <<>>])
    IN [max_iter_lvl1 |-> d_it.val, swarm_lvl1 |-> sw.obj,
        rng |-> sw.rng, heap |-> sw.heap]

-----------------------------------------------------------------------------
(* Inertia weight *)

Alpha == 200            \* alpha = 0.2, in thousandths

\* math.e ** (n / d) in thousandths: the exponential series, term by term
RECURSIVE ExpSeries(_, _, _, _)
ExpSeries(n, d, k, term) ==
    IF term = 0 \/ k > 80 THEN 0
    ELSE term + ExpSeries(n, d, k + 1, (term * n) \div (d * k))

ExpScaled(n, d) == ExpSeries(n, d, 1, Scale)

\* calculate_omega with the exponent (10*t - 2*t_max) / t_max
calculate_omega_Shifted(t, t_max) ==
    IF t * Scale < Alpha * t_max
    THEN [val |-> 900, branch |-> "early", exp |-> <<0, 1>>]
    ELSE [val    |-> (Scale * Scale) \div (Scale + ExpScaled(10 * t - 2 * t_max, t_max)),
          branch |-> "decay",
          exp    |-> <<10 * t - 2 * t_max, t_max>>]

\* Hybrid_MPSO_CNN.calculate_omega(t, t_max, alpha=0.2).  The return value is
\* val (thousandths); branch and exp tell which return statement produced it
\* and, for the second, the exponent of e as the fraction exp[1] / exp[2].
calculate_omega(t, t_max) ==
    IF t * Scale < Alpha * t_max
    THEN [val |-> 900, branch |-> "early", exp |-> <<0, 1>>]
    ELSE [val    |-> (Scale * Scale) \div (Scale + ExpScaled(10 * t - t_max, t_max)),
          branch |-> "decay",
          exp    |-> <<10 * t - t_max, t_max>>]

OmegaCall(t, t_max) == [t |-> t, t_max |-> t_max, ret |-> calculate_omega(t, t_max)]

\* w of level1_optimize: the value the latest call returned
w == omega_call.ret.val

-----------------------------------------------------------------------------
(* The fitness evaluator: CNN(...), buid_model, train_model and             *)
(* Particle_L2.evaluate, i.e. the accuracy keras reports.                   *)

\* the accuracy 1.0
AccOne == Scale

EvalDraw(seed, n) == NextRng(NextRng(257 * seed + n) + n)

\* The accuracy returned by call number n (1, 2, ...) for the CNN of the macro
\* position l1 and the micro position l2.
Evaluate(ev, n, l1, l2) ==
    IF ev.kind = "stub"
    THEN IF <<l1, l2>> = ev.target THEN AccOne ELSE 0
    ELSE LET x == EvalDraw(ev.seed, n)
         IN IF x % 11 = 0 THEN NaN
            ELSE ((x \div 11) % (AccSteps + 1)) * (Scale \div AccSteps)

\* a micro position inside every range of the search space
InSearchSpaceL2(ss, v) ==
    /\ v[1] >= ss.c_nf[1] /\ v[1] <= ss.c_nf[2]
    /\ v[2] >= ss.c_fs[1] /\ v[2] <= ss.c_fs[2]
    /\ v[3] >= ss.c_pp[1] /\ v[3] <= ss.c_pp[2]
    /\ v[4] >= ss.c_ss[1] /\ v[4] <= ss.c_ss[2]
    /\ v[5] >= ss.p_fs[1] /\ v[5] <= ss.p_fs[2]
    /\ v[6] >= ss.p_ss[1] /\ v[6] <= ss.p_ss[2]
    /\ v[7] >= ss.p_pp[1] /\ v[7] <= ss.p_pp[2]
    /\ v[8] >= ss.op[1]   /\ v[8] <= ss.op[2]

\* a macro position inside every range of the search space
InSearchSpaceL1(ss, v) ==
    /\ v[1] >= ss.nC[1] /\ v[1] <= ss.nC[2]
    /\ v[2] >= ss.nP[1] /\ v[2] <= ss.nP[2]
    /\ v[3] >= ss.nF[1] /\ v[3] <= ss.nF[2]

\* the combinations <<macro position, micro position>> of the swarm o
Combinations(o) ==
    UNION {{<<o.heap[o.swarm_lvl1[a].pos_i],
              o.heap[o.swarm_lvl1[a].swarm_lvl2[b].pos_ij]>> :
                b \in 1..Len(o.swarm_lvl1[a].swarm_lvl2)} : a \in 1..Len(o.swarm_lvl1)}

\* a combination of the search space no particle is constructed at
FarTarget(ss) ==
    <<<<ss.nC[1], ss.nP[1], ss.nF[1]>>,
      <<ss.c_nf[2], ss.c_fs[1], ss.c_pp[1], ss.c_ss[1],
        ss.p_fs[1], ss.p_ss[2], ss.p_pp[1], ss.op[2]>>>>

\* The stub evaluators of the scenario "accuracy 1.0 for exactly one combination":
\* one whose combination is a particle's initial position, one whose is not.
StubTargets(ss, o) ==
    LET inside == {cmb \in Combinations(o) : InSearchSpaceL2(ss, cmb[2])}
    IN (IF inside = {} THEN {} ELSE {CHOOSE cmb \in inside : TRUE}) \cup {FarTarget(ss)}

Evaluators(ss, o) ==
    {[kind |-> "seq", seed |-> s, target |-> FarTarget(ss)] : s \in 1..NumEvalSeeds}
    \cup {[kind |-> "stub", seed |-> 0, target |-> tg] : tg \in StubTargets(ss, o)}

-----------------------------------------------------------------------------
(* Particle updates *)

\* update_velocity attracting toward the best positions themselves, the current
\* position not subtracted
update_velocity_Absolute(vel, pos, pbest, gbest, w_, c1_, c2_, r1, r2) ==
    [k \in 1..Len(vel) |->
        MulScaled(w_, vel[k]) + c1_ * r1 * pbest[k] + c2_ * r2 * gbest[k]]

\* update_velocity of both particle classes: the new velocity list
update_velocity(vel, pos, pbest, gbest, w_, c1_, c2_, r1, r2) ==
    [k \in 1..Len(vel) |->
        MulScaled(w_, vel[k]) + c1_ * r1 * (pbest[k] - pos[k])
                              + c2_ * r2 * (gbest[k] - pos[k])]

\* update_position of both particle classes: the new content of the position list
update_position(pos, vel) ==
    [k \in 1..Len(pos) |-> IntTrunc(pos[k] * Scale + vel[k], Scale)]

\* level2_optimize, lines 136-137, on micro particle p: the two draws, the new
\* velocity, and the heap after the in-place update of p's position list
\* (r is the state of the generator, h the list objects, w_ the inertia weight)
MoveL2In(r, h, p, w_) ==
    LET d1   == uniform01(r)
        d2   == uniform01(d1.rng)
        vel2 == update_velocity(p.vel_ij, h[p.pos_ij], h[p.pbest_ij],
                                h[p.gbest], w_, c1, c2, d1.val, d2.val)
    IN [vel  |-> vel2,
        heap |-> [h EXCEPT ![p.pos_ij] = update_position(h[p.pos_ij], vel2)],
        rng  |-> d2.rng]

MoveL2(p) == MoveL2In(rng, heap, p, w)

\* lines 143-148 without the comparisons: the latest fitness is recorded as the best
TrackBestL2_Latest(p) ==
    [p EXCEPT !.pbest_ij_F = p.F_ij, !.pbest_ij = p.pos_ij,
              !.gbest_F = p.F_ij, !.gbest = p.pos_ij]

\* level2_optimize, lines 143-148
TrackBestL2(p) ==
    IF FGt(p.F_ij, p.pbest_ij_F)
    THEN LET q == [p EXCEPT !.pbest_ij_F = p.F_ij, !.pbest_ij = p.pos_ij]
         IN IF FGt(p.F_ij, p.gbest_F)
            THEN [q EXCEPT !.gbest_F = p.F_ij, !.gbest = p.pos_ij]
            ELSE q
    ELSE p

\* level1_optimize, lines 124-129
TrackBestL1(p) ==
    IF FGt(p.F_i, p.pbest_i_F)
    THEN LET q == [p EXCEPT !.pbest_i_F = p.F_i, !.pbest_i = p.pos_i]
         IN IF FGt(p.F_i, p.gbest_F)
            THEN [q EXCEPT !.gbest_F = p.F_i, !.gbest = p.pos_i]
            ELSE q
    ELSE p

\* history of the evaluations: the highest accuracy and the combinations it
\* was measured at (nan is no accuracy)
Seen(b, acc, l1, l2) ==
    IF acc = NaN THEN b
    ELSE IF acc > b.F THEN [F |-> acc, at |-> {<<l1, l2>>}]
    ELSE IF acc = b.F THEN [F |-> acc, at |-> b.at \cup {<<l1, l2>>}]
    ELSE b

-----------------------------------------------------------------------------
(* The run *)

particle_l1 == swarm_lvl1[i_lvl1]
particle_l2 == particle_l1.swarm_lvl2[i_lvl2]

\* the loop of level1_optimize left as soon as an accuracy of 1.0 has been seen
Level1Running_EarlyStop(t) == t < max_iter_lvl1 /\ best_seen.F < AccOne

\* for t in range(self.max_iter_lvl1): generation t is run
Level1Running(t) == t < max_iter_lvl1

\* for t in range(self.max_iter_lvl2): generation t_lvl2 is run
Level2Running == t_lvl2 < max_iter_lvl2

NoResult == [lvl1_hp |-> <<>>, lvl2_hp |-> <<>>, fitness |-> NegInf]

\* the evaluator has not been called
NoCall == [l1 |-> 0, l2 |-> 0, t |-> 0, rng |-> 0, pos |-> <<>>]

\* the evaluator is called (lines 138-142) for particle_l2, the update of
\* lines 136-137 having left the generator in state r and the list objects as h
EvalCall(r, h) ==
    [l1 |-> i_lvl1, l2 |-> i_lvl2, t |-> t_lvl2, rng |-> r, pos |-> h[particle_l2.pos_ij]]

\* The second run.  It is another Hybrid_MPSO_CNN object, constructed under the
\* same seed, with its own generator state and its own list objects; the two
\* runs execute the same statement in each step, so the loop variables are
\* those of the first run, and the evaluator answers both alike.
SecondRun(o) ==
    [rng |-> o.rng, heap |-> o.heap, max_iter_lvl1 |-> o.max_iter_lvl1,
     swarm_lvl1 |-> o.swarm_lvl1, particle_l2_gbest |-> 0, result |-> NoResult]

\* no second run
NoTwin ==
    [rng |-> 0, heap |-> <<>>, max_iter_lvl1 |-> 0,
     swarm_lvl1 |-> <<>>, particle_l2_gbest |-> 0, result |-> NoResult]

\* lines 136-148 in the second run; swallowed: the fitness 0 stands for the
\* evaluator's answer
TwinMicroStep(s, swallowed) ==
    IF s = NoTwin THEN s ELSE
    LET p1  == s.swarm_lvl1[i_lvl1]
        p   == p1.swarm_lvl2[i_lvl2]
        m   == MoveL2In(s.rng, s.heap, p, calculate_omega(t_lvl1, s.max_iter_lvl1).val)
        acc == IF swallowed THEN 0
               ELSE Evaluate(evaluator, n_eval + 1, m.heap[p1.pos_i], m.heap[p.pos_ij])
        p2  == TrackBestL2([p EXCEPT !.vel_ij = m.vel, !.F_ij = acc])
    IN [s EXCEPT !.heap = m.heap, !.rng = m.rng,
                 !.swarm_lvl1[i_lvl1].swarm_lvl2[i_lvl2] = p2]

\* lines 136-142 in the second run, the evaluator raising
TwinEvalRaise(s) ==
    IF s = NoTwin THEN s ELSE
    LET p == s.swarm_lvl1[i_lvl1].swarm_lvl2[i_lvl2]
        m == MoveL2In(s.rng, s.heap, p, calculate_omega(t_lvl1, s.max_iter_lvl1).val)
    IN [s EXCEPT !.heap = m.heap, !.rng = m.rng,
                 !.swarm_lvl1[i_lvl1].swarm_lvl2[i_lvl2].vel_ij = m.vel]

\* lines 150 and 123-129 in the second run
TwinLevel2Return(s) ==
    IF s = NoTwin THEN s ELSE
    LET p1 == s.swarm_lvl1[i_lvl1]
        p  == p1.swarm_lvl2[i_lvl2]
    IN [s EXCEPT !.particle_l2_gbest = p.gbest,
                 !.swarm_lvl1[i_lvl1] = TrackBestL1([p1 EXCEPT !.F_i = p.F_ij])]

\* lines 131 and 153-154 in the second run
TwinLevel1Return(s) ==
    IF s = NoTwin THEN s ELSE
    LET p1 == s.swarm_lvl1[i_lvl1]
    IN [s EXCEPT !.result = [lvl1_hp |-> s.heap[p1.gbest],
                             lvl2_hp |-> s.heap[s.particle_l2_gbest],
                             fitness |-> p1.F_i]]

\* The state after construction; pair: a second optimizer is constructed under
\* the same seed, to be run side by side with the first.
InitWith(pair) ==
    \E ss \in SearchSpaces, seed \in 1..NumSeeds :
        \E o \in {Hybrid_MPSO_CNN_init(ss, seed)} :
           /\ search_space = ss
           /\ evaluator \in Evaluators(ss, o)
           /\ rng = o.rng
           /\ heap = o.heap
           /\ max_iter_lvl1 = o.max_iter_lvl1
           /\ swarm_lvl1 = o.swarm_lvl1
           /\ status = "idle"
           /\ t_lvl1 = 0
           /\ i_lvl1 = 1
           /\ t_lvl2 = 0
           /\ i_lvl2 = 1
           /\ omega_call = OmegaCall(0, o.max_iter_lvl1)
           /\ particle_l2_gbest = 0
           /\ result = NoResult
           /\ n_eval = 0
           /\ raised = FALSE
           /\ best_seen = [F |-> NegInf, at |-> {}]
           /\ eval_log = NoCall
           /\ macro_updates = [a \in 1..Len(o.swarm_lvl1) |-> 0]
           /\ IF pair
              THEN \E o2 \in {Hybrid_MPSO_CNN_init(ss, seed)} : twin = SecondRun(o2)
              ELSE twin = NoTwin

Init == InitWith(FALSE)

InitPair == InitWith(TRUE)

\* run() is called: level1_optimize enters its loop and computes w (lines 120-121)
RunStart ==
    /\ status = "idle"
    /\ IF Level1Running(0)
       THEN status' = "running" /\ omega_call' = OmegaCall(0, max_iter_lvl1)
       ELSE status' = "leaving" /\ UNCHANGED omega_call
    /\ t_lvl1' = 0
    /\ i_lvl1' = 1
    /\ t_lvl2' = 0
    /\ i_lvl2' = 1
    /\ UNCHANGED <<eval_log, macro_updates>>
    /\ UNCHANGED <<search_space, evaluator, rng, heap, max_iter_lvl1, swarm_lvl1,
                   particle_l2_gbest, result, n_eval, raised, best_seen, twin>>

\* The same pass with the number of output units of the position re-drawn, in
\* each run, from a source that the seed does not fix.
MicroStep_Unseeded ==
    /\ status = "running" /\ Level2Running
    /\ \E d \in 1..2, e \in 1..2 :
          LET m0  == MoveL2(particle_l2)
              m   == [m0 EXCEPT !.heap[particle_l2.pos_ij][8] = d]
              l1  == m.heap[particle_l1.pos_i]
              l2  == m.heap[particle_l2.pos_ij]
              acc == Evaluate(evaluator, n_eval + 1, l1, l2)
              p2  == TrackBestL2([particle_l2 EXCEPT !.vel_ij = m.vel, !.F_ij = acc])
              s   == TwinMicroStep(twin, FALSE)
          IN /\ heap' = m.heap
             /\ rng' = m.rng
             /\ swarm_lvl1' = [swarm_lvl1 EXCEPT ![i_lvl1].swarm_lvl2[i_lvl2] = p2]
             /\ n_eval' = n_eval + 1
             /\ best_seen' = Seen(best_seen, acc, l1, l2)
             /\ eval_log' = EvalCall(m.rng, m.heap)
             /\ twin' = [s EXCEPT
                           !.heap[s.swarm_lvl1[i_lvl1].swarm_lvl2[i_lvl2].pos_ij][8] = e]
    /\ IF i_lvl2 < Len(particle_l1.swarm_lvl2)
       THEN i_lvl2' = i_lvl2 + 1 /\ t_lvl2' = t_lvl2
       ELSE i_lvl2' = (IF t_lvl2 + 1 < max_iter_lvl2 THEN 1 ELSE i_lvl2)
            /\ t_lvl2' = t_lvl2 + 1
    /\ UNCHANGED macro_updates
    /\ UNCHANGED <<search_space, evaluator, max_iter_lvl1, status, t_lvl1, i_lvl1,
                   omega_call, particle_l2_gbest, result, raised>>

\* The same pass with the accuracy cached: a particle that has been evaluated and
\* whose position the update left as it was is not evaluated again.
MicroStep_Cached ==
    /\ status = "running" /\ Level2Running
    /\ LET m      == MoveL2(particle_l2)
           l1     == m.heap[particle_l1.pos_i]
           l2     == m.heap[particle_l2.pos_ij]
           cached == particle_l2.F_ij # NegInf /\ l2 = heap[particle_l2.pos_ij]
           acc    == IF cached THEN particle_l2.F_ij
                     ELSE Evaluate(evaluator, n_eval + 1, l1, l2)
           p2     == TrackBestL2([particle_l2 EXCEPT !.vel_ij = m.vel, !.F_ij = acc])
       IN /\ heap' = m.heap
          /\ rng' = m.rng
          /\ swarm_lvl1' = [swarm_lvl1 EXCEPT ![i_lvl1].swarm_lvl2[i_lvl2] = p2]
          /\ n_eval' = IF cached THEN n_eval ELSE n_eval + 1
          /\ best_seen' = Seen(best_seen, acc, l1, l2)
          /\ eval_log' = IF cached THEN eval_log ELSE EvalCall(m.rng, m.heap)
    /\ twin' = TwinMicroStep(twin, FALSE)
    /\ IF i_lvl2 < Len(particle_l1.swarm_lvl2)
       THEN i_lvl2' = i_lvl2 + 1 /\ t_lvl2' = t_lvl2
       ELSE i_lvl2' = (IF t_lvl2 + 1 < max_iter_lvl2 THEN 1 ELSE i_lvl2)
            /\ t_lvl2' = t_lvl2 + 1
    /\ UNCHANGED macro_updates
    /\ UNCHANGED <<search_space, evaluator, max_iter_lvl1, status, t_lvl1, i_lvl1,
                   omega_call, particle_l2_gbest, result, raised>>

\* One pass of the body of the inner loop of level2_optimize (lines 136-148),
\* the evaluator returning an accuracy.
MicroStep ==
    /\ status = "running" /\ Level2Running
    /\ LET m   == MoveL2(particle_l2)
           l1  == m.heap[particle_l1.pos_i]
           l2  == m.heap[particle_l2.pos_ij]
           acc == Evaluate(evaluator, n_eval + 1, l1, l2)
           p2  == TrackBestL2([particle_l2 EXCEPT !.vel_ij = m.vel, !.F_ij = acc])
       IN /\ heap' = m.heap
          /\ rng' = m.rng
          /\ swarm_lvl1' = [swarm_lvl1 EXCEPT ![i_lvl1].swarm_lvl2[i_lvl2] = p2]
          /\ n_eval' = n_eval + 1
          /\ best_seen' = Seen(best_seen, acc, l1, l2)
          /\ eval_log' = EvalCall(m.rng, m.heap)
    /\ twin' = TwinMicroStep(twin, FALSE)
    /\ IF i_lvl2 < Len(particle_l1.swarm_lvl2)
       THEN i_lvl2' = i_lvl2 + 1 /\ t_lvl2' = t_lvl2
       ELSE i_lvl2' = (IF t_lvl2 + 1 < max_iter_lvl2 THEN 1 ELSE i_lvl2)
            /\ t_lvl2' = t_lvl2 + 1
    /\ UNCHANGED macro_updates
    /\ UNCHANGED <<search_space, evaluator, max_iter_lvl1, status, t_lvl1, i_lvl1,
                   omega_call, particle_l2_gbest, result, raised>>

\* The exception caught inside the loop: the particle is given the fitness 0 and
\* the loop goes on.
EvalRaise_Swallowed ==
    /\ status = "running" /\ Level2Running
    /\ LET m   == MoveL2(particle_l2)
           p2  == TrackBestL2([particle_l2 EXCEPT !.vel_ij = m.vel, !.F_ij = 0])
       IN /\ heap' = m.heap
          /\ rng' = m.rng
          /\ swarm_lvl1' = [swarm_lvl1 EXCEPT ![i_lvl1].swarm_lvl2[i_lvl2] = p2]
          /\ eval_log' = EvalCall(m.rng, m.heap)
    /\ n_eval' = n_eval + 1
    /\ raised' = TRUE
    /\ twin' = TwinMicroStep(twin, TRUE)
    /\ IF i_lvl2 < Len(particle_l1.swarm_lvl2)
       THEN i_lvl2' = i_lvl2 + 1 /\ t_lvl2' = t_lvl2
       ELSE i_lvl2' = (IF t_lvl2 + 1 < max_iter_lvl2 THEN 1 ELSE i_lvl2)
            /\ t_lvl2' = t_lvl2 + 1
    /\ UNCHANGED macro_updates
    /\ UNCHANGED <<search_space, evaluator, max_iter_lvl1, status, t_lvl1, i_lvl1,
                   omega_call, particle_l2_gbest, result, best_seen>>

\* The same pass, the evaluator (building, training or evaluating the CNN,
\* lines 138-142) raising: the exception leaves level2_optimize,
\* level1_optimize and run().
EvalRaise ==
    /\ status = "running" /\ Level2Running
    /\ LET m == MoveL2(particle_l2)
       IN /\ heap' = m.heap
          /\ rng' = m.rng
          /\ swarm_lvl1' = [swarm_lvl1 EXCEPT
                               ![i_lvl1].swarm_lvl2[i_lvl2].vel_ij = m.vel]
          /\ eval_log' = EvalCall(m.rng, m.heap)
    /\ n_eval' = n_eval + 1
    /\ raised' = TRUE
    /\ status' = "error"
    /\ twin' = TwinEvalRaise(twin)
    /\ UNCHANGED macro_updates
    /\ UNCHANGED <<search_space, evaluator, max_iter_lvl1, t_lvl1, i_lvl1, t_lvl2,
                   i_lvl2, omega_call, particle_l2_gbest, result, best_seen>>

\* level2_optimize returns (line 150) and level1_optimize takes the result
\* (lines 123-129), then goes to the next macro particle or generation
\* (lines 120-122).  The body of the loop calls neither particle_l1.update_velocity
\* nor particle_l1.update_position, and no other statement of the class does.
Level2Return ==
    /\ status = "running" /\ ~Level2Running
    /\ LET ret == [gbest |-> particle_l2.gbest, F |-> particle_l2.F_ij]
           p1  == TrackBestL1([particle_l1 EXCEPT !.F_i = ret.F])
       IN /\ particle_l2_gbest' = ret.gbest
          /\ swarm_lvl1' = [swarm_lvl1 EXCEPT ![i_lvl1] = p1]
    /\ IF i_lvl1 < Len(swarm_lvl1)
       THEN /\ i_lvl1' = i_lvl1 + 1
            /\ UNCHANGED <<t_lvl1, omega_call, status>>
       ELSE /\ t_lvl1' = t_lvl1 + 1
            /\ IF Level1Running(t_lvl1 + 1)
               THEN /\ i_lvl1' = 1
                    /\ omega_call' = OmegaCall(t_lvl1 + 1, max_iter_lvl1)
                    /\ UNCHANGED status
               ELSE /\ status' = "leaving"
                    /\ UNCHANGED <<i_lvl1, omega_call>>
    /\ t_lvl2' = 0
    /\ i_lvl2' = IF status' = "leaving" THEN i_lvl2 ELSE 1
    /\ twin' = TwinLevel2Return(twin)
    /\ UNCHANGED <<eval_log, macro_updates>>
    /\ UNCHANGED <<search_space, evaluator, rng, heap, max_iter_lvl1,
                   result, n_eval, raised, best_seen>>

\* level1_optimize returns (line 131) and run() returns it (lines 153-154)
Level1Return ==
    /\ status = "leaving"
    /\ result' = [lvl1_hp |-> heap[particle_l1.gbest],
                  lvl2_hp |-> heap[particle_l2_gbest],
                  fitness |-> particle_l1.F_i]
    /\ status' = "done"
    /\ twin' = TwinLevel1Return(twin)
    /\ UNCHANGED <<eval_log, macro_updates>>
    /\ UNCHANGED <<search_space, evaluator, rng, heap, max_iter_lvl1, swarm_lvl1,
                   t_lvl1, i_lvl1, t_lvl2, i_lvl2, omega_call, particle_l2_gbest,
                   n_eval, raised, best_seen>>

Next ==
    \/ RunStart
    \/ MicroStep
    \/ EvalRaise
    \/ Level2Return
    \/ Level1Return

Spec == Init /\ [][Next]_vars

\* A call that is running returns or raises: each step of the run is taken.
FairSpec == Spec /\ WF_vars(Next)

\* Two runs under the same seed and the same evaluator, stepped side by side.
SpecPair == InitPair /\ [][Next]_vars

-----------------------------------------------------------------------------
(* calculate_omega on its own: the method applied to arguments of            *)
(* 0..t_max, t_max up to OmegaTMax, on a constructed optimizer.              *)

InitOmega ==
    \E o \in {Hybrid_MPSO_CNN_init(Table1, 1)} :
       /\ search_space = Table1
       /\ evaluator = [kind |-> "seq", seed |-> 1, target |-> FarTarget(Table1)]
       /\ rng = o.rng
       /\ heap = o.heap
       /\ max_iter_lvl1 = o.max_iter_lvl1
       /\ swarm_lvl1 = o.swarm_lvl1
       /\ status = "omega"
       /\ t_lvl1 = 0
       /\ i_lvl1 = 1
       /\ t_lvl2 = 0
       /\ i_lvl2 = 1
       /\ omega_call = OmegaCall(0, 1)
       /\ particle_l2_gbest = 0
       /\ result = NoResult
       /\ n_eval = 0
       /\ raised = FALSE
       /\ best_seen = [F |-> NegInf, at |-> {}]
       /\ eval_log = NoCall
       /\ macro_updates = [a \in 1..Len(o.swarm_lvl1) |-> 0]
       /\ twin = NoTwin

CallOmega ==
    /\ status = "omega"
    /\ \E t_max \in 1..OmegaTMax : \E t \in 0..t_max :
          omega_call' = OmegaCall(t, t_max)
    /\ UNCHANGED <<eval_log, macro_updates>>
    /\ UNCHANGED <<search_space, evaluator, rng, heap, max_iter_lvl1, swarm_lvl1,
                   status, t_lvl1, i_lvl1, t_lvl2, i_lvl2, particle_l2_gbest,
                   result, n_eval, raised, best_seen, twin>>

SpecOmega == InitOmega /\ [][CallOmega]_vars

-----------------------------------------------------------------------------
(* Properties *)

MacroIds == 1..Len(swarm_lvl1)
MicroIds(a) == 1..Len(swarm_lvl1[a].swarm_lvl2)
Macro(a) == swarm_lvl1[a]
Micro(a, b) == swarm_lvl1[a].swarm_lvl2[b]
MacroPos(a) == heap[swarm_lvl1[a].pos_i]
MicroPos(a, b) == heap[swarm_lvl1[a].swarm_lvl2[b].pos_ij]

\* C1: at construction and after every outer generation, every macro position
\* [nC, nP, nF] has nP <= nC and nF <= nC and every component within its range of
\* the search space, itself within [1,5] (also when nC is fixed to [2,2]).
C1_MacroBounds ==
    \A a \in MacroIds :
        LET v == MacroPos(a)
        IN /\ v[2] <= v[1]
           /\ v[3] <= v[1]
           /\ \A k \in 1..3 : v[k] >= 1 /\ v[k] <= 5
           /\ v[1] >= search_space.nC[1] /\ v[1] <= search_space.nC[2]
           /\ v[2] >= search_space.nP[1] /\ v[2] <= search_space.nP[2]
           /\ v[3] >= search_space.nF[1] /\ v[3] <= search_space.nF[2]

\* C1 witness: under nC fixed to [2,2], an outer generation is over and every macro
\* particle has nC = 2, one of them with nP = 2 and one with nP < 2.
C1_Witness ==
    /\ search_space.nC = <<2, 2>>
    /\ status = "running" /\ t_lvl1 >= 1
    /\ \A a \in MacroIds : MacroPos(a)[1] = 2 /\ Macro(a).F_i # NegInf
    /\ \E a \in MacroIds : MacroPos(a)[2] = 2
    /\ \E a \in MacroIds : MacroPos(a)[2] < 2

\* C2: every micro position, at construction and after every update, has odd
\* filterSize and poolFilterSize, convStride <= filterSize and
\* poolPadding <= poolFilterSize.
C2_MicroConsistent ==
    \A a \in MacroIds : \A b \in MicroIds(a) :
        LET v == MicroPos(a, b)
        IN /\ v[2] % 2 = 1
           /\ v[5] % 2 = 1
           /\ v[4] <= v[2]
           /\ v[7] <= v[5]

\* C2 witness: a micro particle that has been updated and evaluated in more than
\* one generation, with the stride equal to a filter size above 1.
C2_Witness ==
    /\ status = "running" /\ t_lvl2 >= 2
    /\ \E a \in MacroIds : \E b \in MicroIds(a) :
          /\ Micro(a, b).F_ij # NegInf
          /\ MicroPos(a, b)[4] = MicroPos(a, b)[2]
          /\ MicroPos(a, b)[2] > 1

\* C3 (as claimed): every field of every micro position lies within its range of
\* the search space: filter count in [1,64], filter sizes in [1,13], strides in
\* [1,5], paddings in {0,1}, output units in [1,1024].
C3_MicroInRange ==
    \A a \in MacroIds : \A b \in MicroIds(a) :
        LET v == MicroPos(a, b)
        IN /\ v[1] >= 1 /\ v[1] <= 64
           /\ v[2] >= 1 /\ v[2] <= 13
           /\ v[3] \in {0, 1}
           /\ v[4] >= 1 /\ v[4] <= 5
           /\ v[5] >= 1 /\ v[5] <= 13
           /\ v[6] >= 1 /\ v[6] <= 5
           /\ v[7] \in {0, 1}
           /\ v[8] >= 1 /\ v[8] <= 1024


\* C4: monotonic best: in every step, the personal-best fitness of every particle
\* of both levels is at least what it was, and so is every global-best fitness.
C4_MonotonicBest ==
    [][\A a \in MacroIds :
          /\ Macro(a).pbest_i_F' >= Macro(a).pbest_i_F
          /\ Macro(a).gbest_F' >= Macro(a).gbest_F
          /\ \A b \in MicroIds(a) :
                /\ Micro(a, b).pbest_ij_F' >= Micro(a, b).pbest_ij_F
                /\ Micro(a, b).gbest_F' >= Micro(a, b).gbest_F]_vars

\* C4 witness: a micro particle and a macro particle whose latest fitness is a
\* number below their personal best: the step that measured it kept the best.
C4_Witness ==
    /\ \E a \in MacroIds : \E b \in MicroIds(a) :
          /\ Micro(a, b).F_ij \notin {NegInf, NaN}
          /\ Micro(a, b).F_ij < Micro(a, b).pbest_ij_F
    /\ \E a \in MacroIds :
          /\ Macro(a).F_i \notin {NegInf, NaN}
          /\ Macro(a).F_i < Macro(a).pbest_i_F

\* C5 (as claimed): what run() returns is the highest fitness any evaluation of
\* the run obtained, with the macro position and the micro position it was
\* evaluated at.
C5_ReturnsBest ==
    status = "done" =>
        /\ result.fitness = best_seen.F
        /\ <<result.lvl1_hp, result.lvl2_hp>> \in best_seen.at

\* C6: a macro particle constructed with numConvLayers = nC owns a micro swarm of
\* exactly 5*nC particles, and no step changes the length of that swarm.
C6_SwarmSizing ==
    /\ [](\A a \in MacroIds :
              /\ Len(Macro(a).swarm_lvl2) = 5 * Macro(a).nC
              /\ Macro(a).nC = MacroPos(a)[1])
    /\ [][\A a \in MacroIds :
              Len(Macro(a).swarm_lvl2') = Len(Macro(a).swarm_lvl2)]_vars

\* C6 witness: the run is over, with a swarm of 5 micro particles under nC = 1 and
\* one of 25 under nC = 5.
C6_Witness ==
    /\ status = "done"
    /\ \E a \in MacroIds : Macro(a).nC = 1 /\ Len(Macro(a).swarm_lvl2) = 5
    /\ \E a \in MacroIds : Macro(a).nC = 5 /\ Len(Macro(a).swarm_lvl2) = 25


\* C7 (as claimed): calculate_omega(t, t_max) returns exactly 0.9 for all
\* t < 0.2*t_max, and for t = t_max the exponent of e evaluates to 1 and the value
\* returned is 1/(1+e) = 0.2689...
C7_OmegaAsClaimed ==
    /\ 5 * omega_call.t < omega_call.t_max => omega_call.ret.val = 900
    /\ omega_call.t = omega_call.t_max =>
          /\ omega_call.ret.exp[1] = omega_call.ret.exp[2]
          /\ omega_call.ret.val \in {268, 269}

\* C7 (amended): calculate_omega(t, t_max) returns exactly 0.9 for all
\* t < 0.2*t_max; for t = t_max the exponent of e evaluates to 9 and the value
\* returned is 1/(1+e^9) = 0.000123... (0 thousandths).
C7_Omega ==
    /\ 5 * omega_call.t < omega_call.t_max =>
          omega_call.ret.val = 900 /\ omega_call.ret.branch = "early"
    /\ omega_call.t = omega_call.t_max =>
          /\ omega_call.ret.branch = "decay"
          /\ omega_call.ret.exp[1] = 9 * omega_call.ret.exp[2]
          /\ omega_call.ret.val = 0

\* C7 witness: the latest call had t = t_max, with t_max one of the values a run
\* draws.
C7_Witness ==
    /\ status = "omega"
    /\ omega_call.t = omega_call.t_max
    /\ omega_call.t_max = 5
    /\ omega_call.ret.branch = "decay"


\* every fitness field of every particle
Fitnesses ==
    [a \in MacroIds |->
        [F |-> Macro(a).F_i, pbest_F |-> Macro(a).pbest_i_F, gbest_F |-> Macro(a).gbest_F,
         micro |-> [b \in MicroIds(a) |->
                      [F |-> Micro(a, b).F_ij, pbest_F |-> Micro(a, b).pbest_ij_F,
                       gbest_F |-> Micro(a, b).gbest_F]]]]

\* C8: when the evaluator raises, the run is in the error outcome and has returned
\* nothing; the step of the failure assigns no fitness field (no sentinel); after
\* it nothing is updated or evaluated; and when the failure is at the very first
\* evaluation, every personal-best fitness is still negative infinity.
C8_AbortOnError ==
    /\ [](raised => status = "error" /\ result = NoResult)
    /\ [][/\ raised' /\ ~raised => Fitnesses' = Fitnesses
          /\ raised' /\ n_eval' = 1 =>
                \A a \in MacroIds :
                    /\ Macro(a).pbest_i_F' = NegInf
                    /\ \A b \in MicroIds(a) : Micro(a, b).pbest_ij_F' = NegInf
          /\ raised => UNCHANGED vars]_vars

\* C8 witness: the evaluator raised at the first evaluation of the run.
C8_Witness == raised /\ n_eval = 1 /\ status = "error"

\* C8 second case reached as well: the evaluator raised after bests were recorded.
C8_WitnessLate ==
    /\ raised /\ n_eval > 1 /\ status = "error"
    /\ \E a \in MacroIds : Macro(a).pbest_i_F # NegInf


\* the number of micro particles of the macro particles 1..n
RECURSIVE MicroCount(_)
MicroCount(n) == IF n = 0 THEN 0 ELSE Len(swarm_lvl1[n].swarm_lvl2) + MicroCount(n - 1)

\* max_iter_lvl1 is in [5,8] and no step changes it
MaxIterFixed ==
    /\ [](max_iter_lvl1 >= 5 /\ max_iter_lvl1 <= 8)
    /\ [][max_iter_lvl1' = max_iter_lvl1]_vars

\* C9 (as claimed): run() always terminates, reaching Converged after exactly
\* max_iter_lvl1 outer generations, max_iter_lvl1 being drawn in [5,8] and fixed.
C9_AlwaysConverges ==
    /\ <>(status = "done" /\ t_lvl1 = max_iter_lvl1)
    /\ MaxIterFixed

\* how far the run is: every step of the run takes it further
Progress ==
    (CASE status = "idle" -> 0
       [] status = "running" -> 1
       [] status = "leaving" -> 2
       [] OTHER -> 3)
    + n_eval + Len(swarm_lvl1) * t_lvl1 + i_lvl1

\* C9 (amended): run() always terminates (while it has neither returned nor raised
\* it can take a step, every step takes it further, and it cannot go further than
\* max_iter_lvl1 generations of evaluations); unless an evaluation raised, it ends
\* Converged, after exactly max_iter_lvl1 outer generations (each evaluating every
\* micro particle max_iter_lvl2 times), whatever fitness was measured;
\* max_iter_lvl1 is in [5,8] and never changes.
C9_Terminates ==
    /\ [](status \in {"done", "error"} \/ ENABLED Next)
    /\ [][Progress' > Progress]_vars
    /\ [](n_eval <= max_iter_lvl1 * max_iter_lvl2 * MicroCount(Len(swarm_lvl1))
          /\ t_lvl1 <= max_iter_lvl1)
    /\ [](status = "error" => raised)
    /\ [](status = "done" =>
             /\ ~raised
             /\ t_lvl1 = max_iter_lvl1
             /\ n_eval = max_iter_lvl1 * max_iter_lvl2 * MicroCount(Len(swarm_lvl1)))
    /\ MaxIterFixed

\* C9 witness: the run is Converged after max_iter_lvl1 generations although an
\* accuracy of 1.0 was measured in it.
C9_Witness ==
    /\ status = "done"
    /\ t_lvl1 = max_iter_lvl1
    /\ best_seen.F = AccOne
    /\ result.fitness < AccOne

\* the global best is the evaluator's combination, with fitness 1.0: some macro
\* particle holds it as its global best, and a micro particle of its swarm too
GlobalBestIsTarget ==
    \E a \in MacroIds :
        /\ Macro(a).gbest_F = AccOne
        /\ heap[Macro(a).gbest] = evaluator.target[1]
        /\ \E b \in MicroIds(a) :
              /\ Micro(a, b).gbest_F = AccOne
              /\ heap[Micro(a, b).gbest] = evaluator.target[2]

\* C10 (as claimed, in the case most favourable to it): with an evaluator that
\* returns 1.0 for exactly one combination of the search space and 0.0 otherwise,
\* the combination being the position of a particle of the swarm, every run in
\* which the evaluator does not raise eventually has global best fitness 1.0 at
\* that combination.
C10_Converges ==
    (/\ evaluator.kind = "stub"
     /\ \E a \in MacroIds : \E b \in MicroIds(a) :
           <<MacroPos(a), MicroPos(a, b)>> = evaluator.target)
    => <>(raised \/ GlobalBestIsTarget)


RECURSIVE MaxPbestL2(_, _)
MaxPbestL2(a, n) ==
    IF n = 0 THEN NegInf
    ELSE LET rest == MaxPbestL2(a, n - 1)
             f    == Micro(a, n).pbest_ij_F
         IN IF f > rest THEN f ELSE rest

SwarmBestF(a) == MaxPbestL2(a, Len(Macro(a).swarm_lvl2))

\* C12 (as claimed): when level2_optimize returns, after all max_iter_lvl2
\* generations, the fitness it returns, which becomes the macro particle's F_i,
\* is the highest fitness any micro particle of that swarm has obtained in any
\* evaluation so far, and the position it returns is one evaluated to obtain it.
C12_ReturnsMicroBest ==
    [][(status = "running" /\ ~Level2Running) =>
          /\ swarm_lvl1'[i_lvl1].F_i = SwarmBestF(i_lvl1)
          /\ \E b \in MicroIds(i_lvl1) :
                /\ heap[particle_l2_gbest'] = MicroPos(i_lvl1, b)
                /\ Micro(i_lvl1, b).pbest_ij_F = SwarmBestF(i_lvl1)]_vars


\* the highest personal-best fitness of the macro particles 1..n
RECURSIVE MaxPbestL1(_)
MaxPbestL1(n) ==
    IF n = 0 THEN NegInf
    ELSE LET rest == MaxPbestL1(n - 1)
             f    == Macro(n).pbest_i_F
         IN IF f > rest THEN f ELSE rest

\* C13 (as claimed): each swarm has a single shared global best: once a
\* best-tracking step has been taken in a swarm, all particles of the swarm hold
\* the same global-best position and the same global-best fitness, and that
\* fitness is the highest personal-best fitness of the swarm.
C13_SharedGlobalBest ==
    /\ (\E a \in MacroIds : Macro(a).F_i # NegInf) =>
          \A a \in MacroIds :
              /\ heap[Macro(a).gbest] = heap[Macro(1).gbest]
              /\ Macro(a).gbest_F = Macro(1).gbest_F
              /\ Macro(a).gbest_F = MaxPbestL1(Len(swarm_lvl1))
    /\ \A a \in MacroIds :
          (\E b \in MicroIds(a) : Micro(a, b).F_ij # NegInf) =>
              \A b \in MicroIds(a) :
                  /\ heap[Micro(a, b).gbest] = heap[Micro(a, 1).gbest]
                  /\ Micro(a, b).gbest_F = Micro(a, 1).gbest_F
                  /\ Micro(a, b).gbest_F = SwarmBestF(a)


\* the number of visits of macro particle a (calls of level2_optimize on it) that
\* are over
Visits(a) ==
    IF status \in {"leaving", "done"} THEN t_lvl1
    ELSE t_lvl1 + (IF a < i_lvl1 THEN 1 ELSE 0)

\* C14 (as claimed): in every outer generation, for every macro particle in swarm
\* order, the macro velocity/position update is performed once, before or after
\* the particle's call of level2_optimize: a particle has been updated once per
\* visit that is over (once more, possibly, for the one being visited), and
\* max_iter_lvl1 times when the run has returned.
C14_MacroUpdatedEachGeneration ==
    \A a \in MacroIds :
        /\ macro_updates[a] >= Visits(a)
        /\ macro_updates[a] <= Visits(a) + (IF status = "running" /\ a = i_lvl1 THEN 1 ELSE 0)
        /\ status = "done" => macro_updates[a] = max_iter_lvl1


\* C15 (as claimed): position, personal-best position and global-best position
\* of a particle are independent vectors at both levels: the three fields of a
\* particle name three different list objects (so that an update of the position
\* in place cannot change a recorded best position).
C15_IndependentVectors ==
    \A a \in MacroIds :
        /\ Macro(a).pbest_i # Macro(a).pos_i
        /\ Macro(a).gbest # Macro(a).pos_i
        /\ Macro(a).gbest # Macro(a).pbest_i
        /\ \A b \in MicroIds(a) :
              /\ Micro(a, b).pbest_ij # Micro(a, b).pos_ij
              /\ Micro(a, b).gbest # Micro(a, b).pos_ij
              /\ Micro(a, b).gbest # Micro(a, b).pbest_ij

\* the values the evaluator answers: an accuracy of 0..1, or nan
EvaluatorValues == {k * (Scale \div AccSteps) : k \in 0..AccSteps} \cup {NaN}

\* C16 (as claimed): at construction every fitness field of every particle of
\* both levels (current, personal-best and global-best fitness) is negative
\* infinity, and no fitness field ever holds a value that is neither negative
\* infinity nor a value the evaluator returned.
C16_UnmeasuredIsNegInf ==
    \A a \in MacroIds :
        /\ status = "idle" =>
              /\ Fitnesses[a].F = NegInf
              /\ Fitnesses[a].pbest_F = NegInf
              /\ Fitnesses[a].gbest_F = NegInf
              /\ \A b \in MicroIds(a) :
                    /\ Fitnesses[a].micro[b].F = NegInf
                    /\ Fitnesses[a].micro[b].pbest_F = NegInf
                    /\ Fitnesses[a].micro[b].gbest_F = NegInf
        /\ {Fitnesses[a].F, Fitnesses[a].pbest_F, Fitnesses[a].gbest_F}
              \subseteq {NegInf} \cup EvaluatorValues
        /\ \A b \in MicroIds(a) :
              {Fitnesses[a].micro[b].F, Fitnesses[a].micro[b].pbest_F,
               Fitnesses[a].micro[b].gbest_F} \subseteq {NegInf} \cup EvaluatorValues


\* the evaluations of the current call of level2_optimize when every particle is
\* evaluated once per inner generation, in swarm order
CallEvals ==
    IF Level2Running
    THEN t_lvl2 * Len(particle_l1.swarm_lvl2) + (i_lvl2 - 1)
    ELSE max_iter_lvl2 * Len(particle_l1.swarm_lvl2)

\* the evaluations of the calls of level2_optimize that have returned
EvalsBefore ==
    max_iter_lvl2 * (t_lvl1 * MicroCount(Len(swarm_lvl1)) + MicroCount(i_lvl1 - 1))

\* the current fitness of every micro particle
MicroF == [a \in MacroIds |-> [b \in MicroIds(a) |-> Micro(a, b).F_ij]]

\* C17: within one call of level2_optimize the evaluator is invoked exactly once
\* per micro particle per inner generation, in swarm order (the count of calls
\* follows the loop variables), max_iter_lvl2 * 5*nC times when the call returns;
\* each invocation comes after the velocity/position update of the same particle
\* in the same generation (the two draws of the update precede it, and it is
\* given the updated position); and a current fitness changes only in a step
\* that invokes the evaluator, for the particle evaluated.
C17_OneEvaluationEach ==
    /\ [](status = "running" => n_eval = EvalsBefore + CallEvals)
    /\ [](status = "running" /\ ~Level2Running =>
             n_eval - EvalsBefore = max_iter_lvl2 * 5 * particle_l1.nC)
    /\ [][n_eval' # n_eval =>
             /\ n_eval' = n_eval + 1
             /\ eval_log'.l1 = i_lvl1 /\ eval_log'.l2 = i_lvl2 /\ eval_log'.t = t_lvl2
             /\ eval_log'.rng = uniform01(uniform01(rng).rng).rng
             /\ eval_log'.rng = rng'
             /\ eval_log'.pos = heap'[particle_l2.pos_ij]
             /\ \A a \in MacroIds : \A b \in MicroIds(a) :
                   <<a, b>> # <<i_lvl1, i_lvl2>> => MicroF'[a][b] = MicroF[a][b]]_vars
    /\ [][n_eval' = n_eval => MicroF' = MicroF /\ eval_log' = eval_log]_vars

\* C17 witness: a call of level2_optimize on a macro particle with nC = 5 has gone
\* through its five generations: 125 evaluations, the latest of particle 25 in
\* generation 4.
C17_Witness ==
    /\ status = "running" /\ ~Level2Running
    /\ particle_l1.nC = 5
    /\ n_eval - EvalsBefore = 125
    /\ eval_log.l1 = i_lvl1 /\ eval_log.l2 = 25 /\ eval_log.t = 4


\* C18 (as claimed): an accuracy of nan answered by the evaluator is treated as an
\* evaluation error: the run is in the error outcome, and the nan is not kept as
\* the fitness of the particle while the run goes on to the next particle.
C18_NaNIsError ==
    /\ \A a \in MacroIds :
          /\ Macro(a).F_i = NaN => status = "error"
          /\ \A b \in MicroIds(a) : Micro(a, b).F_ij = NaN => status = "error"
    /\ result.fitness # NaN


\* C19: throughout any run, whatever the inertia weight and the draws r1, r2,
\* every velocity of both levels stays the zero vector and every position stays
\* what it was constructed as (no list object ever changes its content; a macro
\* position stays [nC, nP, nF]); position, personal best and global best of a
\* particle are the same list object.
C19_NothingMoves ==
    /\ [](\A a \in MacroIds :
              /\ Macro(a).vel_i = <<0, 0, 0>>
              /\ MacroPos(a) = <<Macro(a).nC, Macro(a).nP, Macro(a).nF>>
              /\ Macro(a).pbest_i = Macro(a).pos_i /\ Macro(a).gbest = Macro(a).pos_i
              /\ \A b \in MicroIds(a) :
                    /\ Micro(a, b).vel_ij = <<0, 0, 0, 0, 0, 0, 0, 0>>
                    /\ Micro(a, b).pbest_ij = Micro(a, b).pos_ij
                    /\ Micro(a, b).gbest = Micro(a, b).pos_ij)
    /\ [][/\ heap' = heap
          /\ \A a \in MacroIds :
                /\ Macro(a).pos_i' = Macro(a).pos_i
                /\ \A b \in MicroIds(a) : Micro(a, b).pos_ij' = Micro(a, b).pos_ij]_vars

\* C19 witness: the run has returned after updates under the inertia weight 0.9
\* and under smaller ones, with draws that differ, and bests were re-recorded.
C19_Witness ==
    /\ status = "done"
    /\ w < 900
    /\ n_eval >= max_iter_lvl1 * max_iter_lvl2 * 5
    /\ uniform01(rng).val # uniform01(uniform01(rng).rng).val
    /\ \E a \in MacroIds : \E b \in MicroIds(a) : Micro(a, b).pbest_ij_F > 0

====
